---- MODULE Spec2Model ----
(***************************************************************************)
(* A model of the token-driven workflow engine: the process graph          *)
(* (entity/process.py), the firing engine (engines/execution.py), the      *)
(* token (entity/tokens.py) and the validators (entity/validators.py).     *)
(*                                                                         *)
(* Conventions.  Topic scores and guard thresholds are real numbers in the *)
(* source; the model counts them in tenths (0.7 is 7, the range [0,1] is   *)
(* 0..10).  An insertion-ordered dict is a sequence of entries (tasks,     *)
(* pending buffers, spec fields) or a function over the keys present       *)
(* (graph, predecessors, pending_buffers, token content, topics).  A       *)
(* content value is a record [t, v, s, l]: its Python type t and its value, *)
(* which is v for a number, s for a string and l for a list (the sequence  *)
(* of its elements, each a content map); the fields that do not apply are  *)
(* 0, "" and << >>.                                                        *)
(***************************************************************************)
EXTENDS Integers, Sequences, FiniteSets, TLC

VARIABLES tasks, graph, predecessors, token_queue, completed_tokens,
          pending_buffers, is_compiled, error_count, now, last, calls

vars == <<tasks, graph, predecessors, token_queue, completed_tokens,
          pending_buffers, is_compiled, error_count, now, last, calls>>

(***************************************************************************)
(* Bounds of the model.                                                    *)
(***************************************************************************)
MaxLinks == 3
MaxLinksLive == 1
MaxLinksChain == 2
MaxErrors == 3
MaxInject == 2
MaxArrive == 1
MaxCallsLive == 1
MaxNow == 2

(***************************************************************************)
(* Dict helpers.                                                           *)
(***************************************************************************)
EmptyMap == [k \in {} |-> 0]

MapGet(m, k, d) == IF k \in DOMAIN m THEN m[k] ELSE d

MapPut(m, k, v) == [x \in (DOMAIN m) \cup {k} |-> IF x = k THEN v ELSE m[x]]

Range(s) == {s[i] : i \in DOMAIN s}

(***************************************************************************)
(* The spec catalogue handed to TokenValidator: spec_id -> fields, each    *)
(* field a FieldConstraint in declaration order.  NoBound stands for None. *)
(***************************************************************************)
NoBound == -99

FieldConstraint(n, t, req, lo, hi, maxlen) ==
    [name |-> n, type |-> t, required |-> req,
     min_value |-> lo, max_value |-> hi, max_length |-> maxlen]

specs ==
    [s \in {"S1", "S2", "S3", "S4"} |->
       CASE s = "S1" -> << FieldConstraint("x", "float", TRUE, 1, 2, NoBound) >>
         [] s = "S2" -> << FieldConstraint("x", "float", TRUE, 1, 2, NoBound),
                           FieldConstraint("y", "string", TRUE, NoBound, NoBound, 1) >>
         [] s = "S3" -> << FieldConstraint("x", "string", TRUE, NoBound, NoBound, 1) >>
         [] s = "S4" -> << FieldConstraint("x", "int", TRUE, 1, 2, NoBound) >>]

FieldNames(spec) == {spec[i].name : i \in DOMAIN spec}

FieldOf(spec, n) == spec[CHOOSE i \in DOMAIN spec : spec[i].name = n]

(***************************************************************************)
(* TokenValidator (entity/validators.py).                                  *)
(***************************************************************************)
Val(t, v) == [t |-> t, v |-> v, s |-> "", l |-> << >>]

\* A str value and a list value.
Str(str) == [t |-> "str", v |-> 0, s |-> str, l |-> << >>]

List(elems) == [t |-> "list", v |-> 0, s |-> "", l |-> elems]

\* isinstance(val, (float, int)): Python's bool is a subclass of int.
IsNumber(val) == val.t \in {"float", "int", "bool"}

\* TRUE when the value passes the rule, FALSE when _fail raises SemanticError.
_check_constraint(val, rule) ==
    IF rule.type = "string"
    THEN /\ val.t = "str"
         /\ ~(rule.max_length # NoBound /\ rule.max_length # 0
              /\ Len(val.s) > rule.max_length)
    ELSE IF rule.type = "float"
    THEN /\ IsNumber(val)
         /\ ~(rule.min_value # NoBound /\ val.v < rule.min_value)
         /\ ~(rule.max_value # NoBound /\ val.v > rule.max_value)
    ELSE TRUE

\* "" when validate returns True, else the exception it raises.
validate(content, spec_id) ==
    IF spec_id \notin DOMAIN specs THEN "ValueError"
    ELSE LET spec == specs[spec_id]
             bad(i) == IF spec[i].name \notin DOMAIN content
                       THEN spec[i].required
                       ELSE ~_check_constraint(content[spec[i].name], spec[i])
         IN IF \E i \in DOMAIN spec : bad(i) THEN "SemanticError" ELSE ""

(***************************************************************************)
(* SpecChainValidator (entity/validators.py).                              *)
(***************************************************************************)
_check_schema_compatibility(producer, consumer) ==
    \A i \in DOMAIN consumer :
        consumer[i].name \in FieldNames(producer)
            => FieldOf(producer, consumer[i].name).type = consumer[i].type

validate_link(source_task, target_task) ==
    LET src_id == source_task.output_spec_id
        tgt_id == target_task.input_spec_id
    IN IF src_id = tgt_id THEN TRUE
       ELSE IF src_id \notin DOMAIN specs \/ tgt_id \notin DOMAIN specs THEN FALSE
       ELSE _check_schema_compatibility(specs[src_id], specs[tgt_id])

(***************************************************************************)
(* Tasks (TaskSpec, GuardCondition) and the task registry, an ordered dict *)
(* kept as a sequence of TaskSpec records.                                 *)
(***************************************************************************)
TaskIds == {"A", "B", "C"}

GuardCondition(topic, min) == [target_topic_id |-> topic, min_relevance |-> min]

TaskSpec(id, guards, in, out, merge) ==
    [task_id |-> id, guards |-> guards, input_spec_id |-> in,
     output_spec_id |-> out, merge_strategy |-> merge]

TaskA  == TaskSpec("A", << >>, "S1", "S1", "strict")
TaskA3 == TaskSpec("A", << >>, "S1", "S3", "strict")
TaskB  == TaskSpec("B", << GuardCondition("fin", 7) >>, "S1", "S1", "strict")
TaskC  == TaskSpec("C", << >>, "S1", "S1", "strict")
TaskCu == TaskSpec("C", << >>, "S1", "S1", "union")

\* C taking S2, whose required field y no S1 producer declares.
TaskC2 == TaskSpec("C", << >>, "S2", "S1", "strict")

TaskPool == {TaskA, TaskA3, TaskB, TaskC, TaskCu}

\* The tasks of the graphs whose arcs join different specs.
ChainPool == {TaskA, TaskA3, TaskB, TaskC2}

Registered(ts) == {ts[i].task_id : i \in DOMAIN ts}

TaskOf(ts, id) == ts[CHOOSE i \in DOMAIN ts : ts[i].task_id = id]

\* self.tasks[task.task_id] = task: a new key goes last, an old key keeps its place.
TasksPut(ts, task) ==
    IF task.task_id \in Registered(ts)
    THEN [i \in DOMAIN ts |-> IF ts[i].task_id = task.task_id THEN task ELSE ts[i]]
    ELSE Append(ts, task)

(***************************************************************************)
(* Cycle detection (Process._detect_cycle): DFS with a recursion stack.    *)
(***************************************************************************)
RECURSIVE dfs(_, _, _, _)
RECURSIVE dfs_neighbors(_, _, _, _, _)

dfs_neighbors(g, nbrs, i, visited, stack) ==
    IF i > Len(nbrs) THEN [found |-> FALSE, visited |-> visited, stack |-> stack]
    ELSE IF nbrs[i] \notin visited
    THEN LET r == dfs(g, nbrs[i], visited, stack)
         IN IF r.found THEN r ELSE dfs_neighbors(g, nbrs, i + 1, r.visited, r.stack)
    ELSE IF nbrs[i] \in stack
    THEN [found |-> TRUE, visited |-> visited, stack |-> stack]
    ELSE dfs_neighbors(g, nbrs, i + 1, visited, stack)

dfs(g, node_id, visited, stack) ==
    LET r == dfs_neighbors(g, MapGet(g, node_id, << >>), 1,
                           visited \cup {node_id}, stack \cup {node_id})
    IN IF r.found THEN r
       ELSE [found |-> FALSE, visited |-> r.visited, stack |-> r.stack \ {node_id}]

\* A DFS from the first registered task only.
detect_cycle_first_root(g, ts) ==
    IF Len(ts) = 0 THEN FALSE ELSE dfs(g, ts[1].task_id, {}, {}).found

RECURSIVE detect_from(_, _, _, _)
detect_from(g, ts, i, visited) ==
    IF i > Len(ts) THEN FALSE
    ELSE IF ts[i].task_id \in visited THEN detect_from(g, ts, i + 1, visited)
    ELSE LET r == dfs(g, ts[i].task_id, visited, {})
         IN IF r.found THEN TRUE ELSE detect_from(g, ts, i + 1, r.visited)

_detect_cycle(g, ts) == detect_from(g, ts, 1, {})

(***************************************************************************)
(* Token (entity/tokens.py): trace_id and source_id are required fields,   *)
(* the others have defaults (created_at defaults to the time of creation). *)
(***************************************************************************)
TokenRequired == {"trace_id", "source_id"}

NoToken ==
    [trace_id |-> "<none>", source_id |-> "<none>", history |-> << >>,
     created_at |-> 0, content |-> EmptyMap, topics |-> EmptyMap]

\* Token(**kwargs) at time t: [err, token]; pydantic raises ValidationError
\* when a required field is not given.
Token(kwargs, t) ==
    IF ~(TokenRequired \subseteq DOMAIN kwargs)
    THEN [err |-> "ValidationError", token |-> NoToken]
    ELSE [err |-> "",
          token |-> [trace_id   |-> kwargs.trace_id,
                     source_id  |-> kwargs.source_id,
                     history    |-> MapGet(kwargs, "history", << >>),
                     created_at |-> MapGet(kwargs, "created_at", t),
                     content    |-> MapGet(kwargs, "content", EmptyMap),
                     topics     |-> MapGet(kwargs, "topics", EmptyMap)]]

\* Python's == on content values: numbers compare by value across int, float
\* and bool; lists compare element by element, and the dicts in them key by
\* key, with the same equality; anything else by type and value.
RECURSIVE PyEq(_, _)
RECURSIVE DictEq(_, _)
PyEq(a, b) ==
    IF IsNumber(a) /\ IsNumber(b) THEN a.v = b.v
    ELSE IF a.t = "list" /\ b.t = "list"
    THEN /\ Len(a.l) = Len(b.l)
         /\ \A i \in DOMAIN a.l : DictEq(a.l[i], b.l[i])
    ELSE a.t = b.t /\ a.v = b.v /\ a.s = b.s

DictEq(c1, c2) ==
    /\ DOMAIN c1 = DOMAIN c2
    /\ \A k \in DOMAIN c1 : PyEq(c1[k], c2[k])

\* dict.update: the right operand wins.
Update(c1, c2) ==
    [k \in (DOMAIN c1) \cup (DOMAIN c2) |-> IF k \in DOMAIN c2 THEN c2[k] ELSE c1[k]]

(***************************************************************************)
(* Merge engine (Process._apply_merge_strategy).                           *)
(***************************************************************************)
RECURSIVE union_content(_, _, _)
union_content(tokens, i, acc) ==
    IF i > Len(tokens) THEN acc
    ELSE union_content(tokens, i + 1, Update(acc, tokens[i].content))

\* A strict merge that overlays without comparing.
strict_content_unchecked(tokens, i, acc) ==
    [conflict |-> FALSE, content |-> union_content(tokens, i, acc)]

\* [conflict, content]: the strict loop stops at the first key whose value
\* differs from the one already merged.
RECURSIVE strict_content(_, _, _)
strict_content(tokens, i, acc) ==
    IF i > Len(tokens) THEN [conflict |-> FALSE, content |-> acc]
    ELSE LET c == tokens[i].content
         IN IF \E k \in DOMAIN c : k \in DOMAIN acc /\ ~PyEq(acc[k], c[k])
            THEN [conflict |-> TRUE, content |-> acc]
            ELSE strict_content(tokens, i + 1, Update(acc, c))

custom_content(tokens) ==
    [k \in {"__inputs__", "__meta__"} |->
        IF k = "__inputs__"
        THEN List([i \in DOMAIN tokens |-> tokens[i].content])
        ELSE Str("bundled")]

\* The keyword arguments the merged token is constructed with.
MergeKwargs(base, content) == [trace_id |-> base.trace_id, content |-> content]

\* [err, kwargs, token]: err is "" when a merged token is returned.
_apply_merge_strategy(strategy, tokens, t) ==
    LET base == tokens[1]
        built(content) ==
            LET kw == MergeKwargs(base, content)
                r  == Token(kw, t)
            IN [err |-> r.err, kwargs |-> kw, token |-> r.token]
    IN IF strategy = "custom_logic" THEN built(custom_content(tokens))
       ELSE IF strategy = "strict"
       THEN LET m == strict_content(tokens, 1, EmptyMap)
            IN IF m.conflict
               THEN [err |-> "ValueError: Merge Conflict", kwargs |-> EmptyMap,
                     token |-> NoToken]
               ELSE built(m.content)
       ELSE built(union_content(tokens, 1, EmptyMap))

(***************************************************************************)
(* The logger returned by core.logging_utils.get_logger is used everywhere *)
(* through .info/.warning/.error/.critical/.debug: a logging.Logger, which *)
(* is not callable.                                                        *)
(***************************************************************************)
logger_callable == FALSE

(***************************************************************************)
(* Process.arrive_token on the runtime state                               *)
(* p = [token_queue, pending_buffers, predecessors, completed_tokens].     *)
(* The result is [p, err, merged]: err is "" on a normal return, else the  *)
(* exception raised; the state changes made before the raise stay.         *)
(***************************************************************************)
\* An entry put at the head of the queue (appendleft).
EnqueueFront(q, task_id, token) == <<[task_id |-> task_id, token |-> token]>> \o q

\* self.token_queue.append((task_id, token))
Enqueue(q, task_id, token) == Append(q, [task_id |-> task_id, token |-> token])

\* A buffer kept as a list: every arrival is appended.
BufferAppend(buf, from_task_id, token) == Append(buf, [src |-> from_task_id, token |-> token])

\* self.pending_buffers[to][from] = token on an insertion-ordered dict.
BufferPut(buf, from_task_id, token) ==
    IF \E i \in DOMAIN buf : buf[i].src = from_task_id
    THEN [i \in DOMAIN buf |->
            IF buf[i].src = from_task_id THEN [src |-> from_task_id, token |-> token]
            ELSE buf[i]]
    ELSE Append(buf, [src |-> from_task_id, token |-> token])

BufferKeys(buf) == {buf[i].src : i \in DOMAIN buf}

BufferValues(buf) == [i \in DOMAIN buf |-> buf[i].token]

arrive_token(p, ts, from_task_id, to_task_id, token, t) ==
    LET buf      == BufferPut(MapGet(p.pending_buffers, to_task_id, << >>),
                              from_task_id, token)
        pb1      == MapPut(p.pending_buffers, to_task_id, buf)
        required == MapGet(p.predecessors, to_task_id, {})
        preds1   == MapPut(p.predecessors, to_task_id, required)
        missing  == required \ BufferKeys(buf)
        p1       == [p EXCEPT !.pending_buffers = pb1, !.predecessors = preds1]
    IN IF missing = {}
       THEN IF to_task_id \notin Registered(ts)
            THEN [p |-> p1, err |-> "KeyError", merged |-> NoToken,
                  inputs |-> << >>, kwargs |-> EmptyMap]
            ELSE LET m == _apply_merge_strategy(TaskOf(ts, to_task_id).merge_strategy,
                                                BufferValues(buf), t)
                 IN IF m.err # ""
                    THEN [p |-> p1, err |-> m.err, merged |-> NoToken,
                          inputs |-> BufferValues(buf), kwargs |-> m.kwargs]
                    ELSE [p |-> [p1 EXCEPT
                                   !.token_queue = Enqueue(@, to_task_id, m.token),
                                   !.pending_buffers = MapPut(pb1, to_task_id, << >>)],
                          err |-> "", merged |-> m.token,
                          inputs |-> BufferValues(buf), kwargs |-> m.kwargs]
       ELSE [p |-> p1, err |-> IF logger_callable THEN "" ELSE "TypeError",
             merged |-> NoToken, inputs |-> << >>, kwargs |-> EmptyMap]

(***************************************************************************)
(* Firing engine (engines/execution.py).                                   *)
(***************************************************************************)
ttl_seconds == 1

\* An envelope check that also rejects a token aged exactly ttl_seconds.
_validate_envelope_ttl_inclusive(token, t) ==
    /\ token.trace_id # ""
    /\ \A k \in DOMAIN token.topics : 0 <= token.topics[k] /\ token.topics[k] <= 10
    /\ ~(t - token.created_at >= ttl_seconds)

\* TRUE when the envelope is intact, FALSE when TokenIntegrityError is raised.
_validate_envelope(token, t) ==
    /\ token.trace_id # ""
    /\ \A k \in DOMAIN token.topics : 0 <= token.topics[k] /\ token.topics[k] <= 10
    /\ ~(t - token.created_at > ttl_seconds)

\* A guard that lets a token without the topic through.
GuardPassesWhenAbsent(guard, token) ==
    ~(MapGet(token.topics, guard.target_topic_id, 10) < guard.min_relevance)

GuardPasses(guard, token) ==
    ~(MapGet(token.topics, guard.target_topic_id, 0) < guard.min_relevance)

_check_guards(task, token) ==
    \A i \in DOMAIN task.guards : GuardPasses(task.guards[i], token)

\* An evolution that starts the history afresh.
evolve_token_fresh_history(old_token, new_content, task) ==
    [old_token EXCEPT !.content = new_content, !.history = <<task.task_id>>]

_evolve_token(old_token, new_content, task) ==
    [old_token EXCEPT !.content = new_content,
                      !.history = Append(old_token.history, task.task_id)]

get_next_nodes(g, ts, current_task_id) ==
    LET next_ids == MapGet(g, current_task_id, << >>)
    IN [i \in DOMAIN next_ids |-> TaskOf(ts, next_ids[i])]

\* The routing loop from the i-th successor on: [p, err, triggered, delivered].
RECURSIVE route_loop(_, _, _, _, _, _, _, _, _)
route_loop(p, ts, current_task, next_tasks, i, token, t, triggered, delivered) ==
    IF i > Len(next_tasks)
    THEN [p |-> p, err |-> "", triggered |-> triggered, delivered |-> delivered,
          inputs |-> << >>, kwargs |-> EmptyMap]
    ELSE IF _check_guards(next_tasks[i], token)
    THEN LET r == arrive_token(p, ts, current_task.task_id, next_tasks[i].task_id,
                               token, t)
         IN IF r.err # ""
            THEN [p |-> r.p, err |-> r.err, triggered |-> triggered,
                  delivered |-> Append(delivered, next_tasks[i].task_id),
                  inputs |-> r.inputs, kwargs |-> r.kwargs]
            ELSE route_loop(r.p, ts, current_task, next_tasks, i + 1, token, t,
                            triggered + 1, Append(delivered, next_tasks[i].task_id))
    ELSE route_loop(p, ts, current_task, next_tasks, i + 1, token, t,
                    triggered, delivered)

\* A routing that completes the token when no successor took it.
propagate_completing_unrouted(p, g, ts, current_task, token, t) ==
    LET next_tasks == get_next_nodes(g, ts, current_task.task_id)
        r == route_loop(p, ts, current_task, next_tasks, 1, token, t, 0, << >>)
    IN IF r.delivered = << >>
       THEN [r EXCEPT !.p.completed_tokens = Append(@, token)]
       ELSE r

\* A routing that keeps only the latest finished token: an assignment in place
\* of the append.
propagate_keeping_latest(p, g, ts, current_task, token, t) ==
    LET next_tasks == get_next_nodes(g, ts, current_task.task_id)
    IN IF Len(next_tasks) = 0
       THEN [p |-> [p EXCEPT !.completed_tokens = <<token>>],
             err |-> "", triggered |-> 0, delivered |-> << >>,
             inputs |-> << >>, kwargs |-> EmptyMap]
       ELSE route_loop(p, ts, current_task, next_tasks, 1, token, t, 0, << >>)

_propagate_token(p, g, ts, current_task, token, t) ==
    LET next_tasks == get_next_nodes(g, ts, current_task.task_id)
    IN IF Len(next_tasks) = 0
       THEN [p |-> [p EXCEPT !.completed_tokens = Append(@, token)],
             err |-> "", triggered |-> 0, delivered |-> << >>,
             inputs |-> << >>, kwargs |-> EmptyMap]
       ELSE route_loop(p, ts, current_task, next_tasks, 1, token, t, 0, << >>)

(***************************************************************************)
(* Inputs: the tokens a host injects and what a task function does.        *)
(***************************************************************************)
X(v) == [k \in {"x"} |-> Val("int", v)]

Topics(score) == [k \in {"fin"} |-> score]

NewToken(trace, source, content, topics) ==
    [trace_id |-> trace, source_id |-> source, history |-> << >>,
     created_at |-> 0, content |-> content, topics |-> topics]

TokenGood  == NewToken("t1", "u1", X(1), Topics(9))
TokenLow   == NewToken("t2", "u2", X(2), Topics(5))
TokenEmpty == NewToken("t2", "u2", EmptyMap, EmptyMap)
TokenBad   == NewToken("t1", "u1", X(1), Topics(-1))

\* A token created two seconds before the engine starts: older than ttl_seconds.
TokenOld == [TokenLow EXCEPT !.created_at = -2]

\* A token whose age is exactly ttl_seconds when the engine starts.
TokenAtTtl == [TokenGood EXCEPT !.created_at = -1]

\* A token with an empty trace_id (pydantic accepts "" for a str field).
TokenNoTrace == [TokenGood EXCEPT !.trace_id = ""]

\* A token that already carries a visit in its history.
TokenVisited == [TokenGood EXCEPT !.history = <<"B">>]

TokenPool == {TokenGood, TokenLow, TokenEmpty, TokenBad, TokenOld, TokenAtTtl,
              TokenNoTrace, TokenVisited}

\* The tokens a host hands to arrive_token itself.
ArrivePool == {TokenGood}

\* What resolving and calling task.target does: it raises an Exception
\* ("raise"), raises an exception that does not derive from Exception, such as
\* SystemExit or KeyboardInterrupt ("raise_base"), or returns a content map.
FuncOutcomes ==
    { [kind |-> "raise", content |-> EmptyMap],
      [kind |-> "raise_base", content |-> EmptyMap],
      [kind |-> "return", content |-> X(1)],
      [kind |-> "return", content |-> X(2)],
      [kind |-> "return", content |-> EmptyMap] }

(***************************************************************************)
(* State.  last records the most recent call and what it gave back: the    *)
(* result is "value" (a normal return), "none" (run_step on an empty       *)
(* queue) or "raised".  calls counts the host's inject_token and           *)
(* arrive_token calls so far.                                              *)
(***************************************************************************)
NoOutcome == [kind |-> "", content |-> EmptyMap]

NoCall ==
    [op |-> "init", result |-> "value", raised |-> "", success |-> TRUE,
     message |-> "", task_id |-> "", from_id |-> "", token |-> NoToken,
     outcome |-> NoOutcome, new_token |-> NoToken, invoked |-> FALSE, routes |-> 0,
     delivered |-> << >>, merged |-> NoToken, inputs |-> << >>, kwargs |-> EmptyMap,
     spec_id |-> "", strategy |-> ""]

Runtime ==
    [token_queue |-> token_queue, pending_buffers |-> pending_buffers,
     predecessors |-> predecessors, completed_tokens |-> completed_tokens]

Init ==
    /\ tasks = << >>
    /\ graph = EmptyMap
    /\ predecessors = EmptyMap
    /\ token_queue = << >>
    /\ completed_tokens = << >>
    /\ pending_buffers = EmptyMap
    /\ is_compiled = FALSE
    /\ error_count = 0
    /\ now = 0
    /\ last = NoCall
    /\ calls = [inject |-> 0, arrive |-> 0]

(***************************************************************************)
(* Process.add_task                                                        *)
(***************************************************************************)
add_task(pool) ==
    \E task \in pool :
        /\ tasks' = TasksPut(tasks, task)
        /\ last' = [NoCall EXCEPT !.op = "add_task", !.task_id = task.task_id]
        /\ UNCHANGED <<graph, predecessors, token_queue, completed_tokens,
                       pending_buffers, is_compiled, error_count, now, calls>>

(***************************************************************************)
(* Process.add_link                                                        *)
(***************************************************************************)
Arcs(g) == UNION {{<<k, i>> : i \in DOMAIN g[k]} : k \in DOMAIN g}

\* self.graph[src_id].append(tgt_id)
LinkGraph(g, src_id, tgt_id) == MapPut(g, src_id, Append(MapGet(g, src_id, << >>), tgt_id))

\* An assignment in place of set.add: the latest source replaces the others.
LinkPredecessorsOverwrite(preds, src_id, tgt_id) == MapPut(preds, tgt_id, {src_id})

\* self.predecessors[tgt_id].add(src_id)
LinkPredecessors(preds, src_id, tgt_id) ==
    MapPut(preds, tgt_id, MapGet(preds, tgt_id, {}) \cup {src_id})

\* An add_link that reads self.graph[src_id] before its registration checks:
\* the defaultdict creates the key, and the error is raised afterwards.
add_link_touching_graph(maxLinks) ==
    \E src_id \in TaskIds, tgt_id \in TaskIds :
        IF src_id \notin Registered(tasks) \/ tgt_id \notin Registered(tasks)
        THEN /\ graph' = MapPut(graph, src_id, MapGet(graph, src_id, << >>))
             /\ last' = [NoCall EXCEPT !.op = "add_link", !.result = "raised",
                                       !.raised = "ValueError", !.success = FALSE,
                                       !.from_id = src_id, !.task_id = tgt_id]
             /\ UNCHANGED <<tasks, predecessors, token_queue, completed_tokens,
                            pending_buffers, is_compiled, error_count, now, calls>>
        ELSE /\ Cardinality(Arcs(graph)) < maxLinks
             /\ graph' = LinkGraph(graph, src_id, tgt_id)
             /\ is_compiled' = FALSE
             /\ predecessors' = LinkPredecessors(predecessors, src_id, tgt_id)
             /\ last' = [NoCall EXCEPT !.op = "add_link",
                                       !.from_id = src_id, !.task_id = tgt_id]
             /\ UNCHANGED <<tasks, token_queue, completed_tokens, pending_buffers,
                            error_count, now, calls>>

add_link(maxLinks) ==
    \E src_id \in TaskIds, tgt_id \in TaskIds :
        IF src_id \notin Registered(tasks) \/ tgt_id \notin Registered(tasks)
        THEN /\ last' = [NoCall EXCEPT !.op = "add_link", !.result = "raised",
                                       !.raised = "ValueError", !.success = FALSE,
                                       !.from_id = src_id, !.task_id = tgt_id]
             /\ UNCHANGED <<tasks, graph, predecessors, token_queue, completed_tokens,
                            pending_buffers, is_compiled, error_count, now, calls>>
        ELSE /\ Cardinality(Arcs(graph)) < maxLinks
             /\ graph' = LinkGraph(graph, src_id, tgt_id)
             /\ is_compiled' = FALSE
             /\ predecessors' = LinkPredecessors(predecessors, src_id, tgt_id)
             /\ last' = [NoCall EXCEPT !.op = "add_link",
                                       !.from_id = src_id, !.task_id = tgt_id]
             /\ UNCHANGED <<tasks, token_queue, completed_tokens, pending_buffers,
                            error_count, now, calls>>

(***************************************************************************)
(* Process.compile                                                         *)
(***************************************************************************)
ChainErrors(g, ts) ==
    {a \in Arcs(g) : ~validate_link(TaskOf(ts, a[1]), TaskOf(ts, g[a[1]][a[2]]))}

\* self.error_count once compile has run its two checks, from a count of n0.
CompileErrors(n0, g, ts) ==
    n0 + Cardinality(ChainErrors(g, ts)) + (IF _detect_cycle(g, ts) THEN 1 ELSE 0)

compile ==
    LET n == CompileErrors(error_count, graph, tasks)
    IN /\ error_count < MaxErrors
       /\ error_count' = n
       /\ is_compiled' = IF n > 0 THEN is_compiled ELSE TRUE
       /\ last' = [NoCall EXCEPT !.op = "compile", !.success = ~(n > 0)]
       /\ UNCHANGED <<tasks, graph, predecessors, token_queue, completed_tokens,
                      pending_buffers, now, calls>>

(***************************************************************************)
(* Process.inject_token                                                    *)
(***************************************************************************)
inject_token(pool, maxCalls) ==
    \E start_task_id \in TaskIds, token \in pool :
        /\ calls.inject < maxCalls
        /\ calls' = [calls EXCEPT !.inject = @ + 1]
        /\ IF start_task_id \notin Registered(tasks)
           THEN /\ last' = [NoCall EXCEPT !.op = "inject_token", !.result = "raised",
                                          !.raised = "ValueError", !.success = FALSE,
                                          !.task_id = start_task_id, !.token = token]
                /\ UNCHANGED token_queue
           ELSE /\ token_queue' = Enqueue(token_queue, start_task_id, token)
                /\ last' = [NoCall EXCEPT !.op = "inject_token",
                                          !.task_id = start_task_id, !.token = token]
        /\ UNCHANGED <<tasks, graph, predecessors, completed_tokens,
                       pending_buffers, is_compiled, error_count, now>>

(***************************************************************************)
(* Process.arrive_token called by the host                                 *)
(***************************************************************************)
arrive_token_call(pool, maxCalls) ==
    \E from_task_id \in TaskIds, to_task_id \in TaskIds, token \in pool :
        LET r == arrive_token(Runtime, tasks, from_task_id, to_task_id, token, now)
        IN /\ calls.arrive < maxCalls
           /\ calls' = [calls EXCEPT !.arrive = @ + 1]
           /\ token_queue' = r.p.token_queue
           /\ pending_buffers' = r.p.pending_buffers
           /\ predecessors' = r.p.predecessors
           /\ last' = [NoCall EXCEPT !.op = "arrive_token",
                                     !.result = IF r.err = "" THEN "value" ELSE "raised",
                                     !.raised = r.err, !.success = (r.err = ""),
                                     !.from_id = from_task_id, !.task_id = to_task_id,
                                     !.token = token, !.merged = r.merged,
                                     !.inputs = r.inputs, !.kwargs = r.kwargs]
           /\ UNCHANGED <<tasks, graph, completed_tokens, is_compiled, error_count, now>>

(***************************************************************************)
(* ExecEngine.run_step                                                     *)
(***************************************************************************)
\* A peek: the head entry stays in the queue.
DequeueKeep(p) == p

\* process.token_queue.popleft()
Dequeue(p) == [p EXCEPT !.token_queue = Tail(@)]

\* A failure that reaches the host as an exception instead of a FiringResult.
FiringFailureRaised(task, token, message, outcome) ==
    [NoCall EXCEPT !.op = "run_step", !.result = "raised", !.raised = message,
                   !.success = FALSE, !.task_id = task.task_id, !.token = token,
                   !.invoked = (outcome.kind # ""), !.outcome = outcome]

FiringFailure(task, token, message, outcome) ==
    [NoCall EXCEPT !.op = "run_step", !.success = FALSE, !.message = message,
                   !.task_id = task.task_id, !.token = token,
                   !.invoked = (outcome.kind # ""), !.outcome = outcome]

\* What the host sees when the task function raises past "except Exception":
\* the exception itself, and no FiringResult.
FiringEscape(task, token, outcome) ==
    [NoCall EXCEPT !.op = "run_step", !.result = "raised", !.raised = "BaseException",
                   !.success = FALSE, !.task_id = task.task_id, !.token = token,
                   !.invoked = TRUE, !.outcome = outcome]

\* The FiringResult of a step whose function ran and whose output passed, and
\* the runtime state the routing r = [p, err, triggered, delivered] left.
FiringOutcome(task, token, outcome, new_token, r) ==
    [p |-> r.p,
     last |-> [NoCall EXCEPT
                 !.op = "run_step",
                 !.result = IF r.err = "" THEN "value" ELSE "raised",
                 !.raised = r.err, !.success = (r.err = ""),
                 !.message = IF r.err = "" THEN "Success" ELSE "",
                 !.task_id = task.task_id, !.token = token,
                 !.outcome = outcome, !.new_token = new_token,
                 !.invoked = TRUE, !.routes = r.triggered,
                 !.delivered = r.delivered,
                 !.inputs = r.inputs, !.kwargs = r.kwargs]]

\* Step 9: routing of the evolved token.
fire_route(p0, g, ts, task, token, outcome, new_token, t) ==
    FiringOutcome(task, token, outcome, new_token,
                  _propagate_token(p0, g, ts, task, new_token, t))

\* Steps 3 to 8 on the dequeued entry (task, token); p0 is the state after popleft.
fire_task(p0, g, ts, task, token, outcome, t) ==
    IF ~_validate_envelope(token, t)
    THEN [p |-> p0, last |-> FiringFailure(task, token, "Token Integrity Fail", NoOutcome)]
    ELSE IF ~_check_guards(task, token)
    THEN [p |-> p0, last |-> FiringFailure(task, token, "Guard Condition Failed", NoOutcome)]
    ELSE IF validate(token.content, task.input_spec_id) # ""
    THEN [p |-> p0, last |-> FiringFailure(task, token, "Input Spec Fail", NoOutcome)]
    ELSE IF outcome.kind = "raise"
    THEN [p |-> p0, last |-> FiringFailure(task, token, "Runtime Execution Error", outcome)]
    ELSE IF outcome.kind = "raise_base"
    THEN [p |-> p0, last |-> FiringEscape(task, token, outcome)]
    ELSE IF validate(outcome.content, task.output_spec_id) # ""
    THEN [p |-> p0, last |-> FiringFailure(task, token, "Output Spec Fail", outcome)]
    ELSE fire_route(p0, g, ts, task, token, outcome,
                    _evolve_token(token, outcome.content, task), t)

\* One step on a non-empty queue: [p, last].
fire(p, g, ts, outcome, t) ==
    fire_task(Dequeue(p), g, ts, TaskOf(ts, Head(p.token_queue).task_id),
              Head(p.token_queue).token, outcome, t)

\* The state a step leaves: r = [p, last].
StepTo(r) ==
    /\ token_queue' = r.p.token_queue
    /\ pending_buffers' = r.p.pending_buffers
    /\ predecessors' = r.p.predecessors
    /\ completed_tokens' = r.p.completed_tokens
    /\ last' = r.last
    /\ UNCHANGED <<tasks, graph, is_compiled, error_count, now, calls>>

run_step ==
    IF token_queue = << >>
    THEN /\ last' = [NoCall EXCEPT !.op = "run_step", !.result = "none"]
         /\ UNCHANGED <<tasks, graph, predecessors, token_queue, completed_tokens,
                        pending_buffers, is_compiled, error_count, now, calls>>
    ELSE \E outcome \in FuncOutcomes : StepTo(fire(Runtime, graph, tasks, outcome, now))

(***************************************************************************)
(* Time passes between calls.                                              *)
(***************************************************************************)
tick ==
    /\ now < MaxNow
    /\ now' = now + 1
    /\ UNCHANGED <<tasks, graph, predecessors, token_queue, completed_tokens,
                   pending_buffers, is_compiled, error_count, last, calls>>

(***************************************************************************)
(* The whole program: every call in any order, on a small registry.        *)
(***************************************************************************)
Next ==
    \/ add_task({TaskA, TaskB})
    \/ add_link(MaxLinksLive)
    \/ compile
    \/ inject_token({TokenGood}, MaxCallsLive)
    \/ arrive_token_call({TokenGood}, MaxCallsLive)
    \/ run_step
    \/ tick

Spec == Init /\ [][Next]_vars

(***************************************************************************)
(* The graph alone: construction and compilation.                          *)
(***************************************************************************)
NextGraph ==
    \/ add_task(TaskPool)
    \/ add_link(MaxLinks)
    \/ compile

SpecGraph == Init /\ [][NextGraph]_vars

(***************************************************************************)
(* The graph alone, over tasks whose input and output specs differ.        *)
(***************************************************************************)
NextChain ==
    \/ add_task(ChainPool)
    \/ add_link(MaxLinksChain)
    \/ compile

SpecChain == Init /\ [][NextChain]_vars

(***************************************************************************)
(* The engine on a constructed process: each initial state is what a       *)
(* sequence of add_task and add_link calls, and then compile where asked,  *)
(* leaves behind.                                                          *)
(***************************************************************************)
Build(ts, links, compiled) == [tasks |-> ts, links |-> links, compiled |-> compiled]

Single     == Build(<<TaskA>>, << >>, FALSE)
Chain      == Build(<<TaskA, TaskB>>, << <<"A", "B">> >>, TRUE)
Join       == Build(<<TaskA, TaskB, TaskC>>, << <<"A", "C">>, <<"B", "C">> >>, TRUE)
JoinUnion  == Build(<<TaskA, TaskB, TaskCu>>, << <<"A", "C">>, <<"B", "C">> >>, TRUE)
JoinBranch == Build(<<TaskA, TaskB, TaskC>>,
                    << <<"A", "C">>, <<"A", "B">>, <<"B", "C">> >>, TRUE)

\* A fan-out: A's links are declared to C first, then to B.
Fan        == Build(<<TaskA, TaskB, TaskC>>, << <<"A", "C">>, <<"A", "B">> >>, TRUE)

Processes == {Single, Chain, Join, JoinUnion, JoinBranch, Fan}

RECURSIVE BuiltTasks(_, _)
BuiltTasks(ts, i) == IF i = 0 THEN << >> ELSE TasksPut(BuiltTasks(ts, i - 1), ts[i])

RECURSIVE BuiltGraph(_, _)
BuiltGraph(links, i) ==
    IF i = 0 THEN EmptyMap ELSE LinkGraph(BuiltGraph(links, i - 1), links[i][1], links[i][2])

RECURSIVE BuiltPredecessors(_, _)
BuiltPredecessors(links, i) ==
    IF i = 0 THEN EmptyMap
    ELSE LinkPredecessors(BuiltPredecessors(links, i - 1), links[i][1], links[i][2])

Built(b) ==
    LET ts == BuiltTasks(b.tasks, Len(b.tasks))
        g  == BuiltGraph(b.links, Len(b.links))
        n  == IF b.compiled THEN CompileErrors(0, g, ts) ELSE 0
    IN [tasks |-> ts, graph |-> g,
        predecessors |-> BuiltPredecessors(b.links, Len(b.links)),
        error_count |-> n, is_compiled |-> (b.compiled /\ ~(n > 0))]

InitRun ==
    \E b \in Processes :
        /\ tasks = Built(b).tasks
        /\ graph = Built(b).graph
        /\ predecessors = Built(b).predecessors
        /\ error_count = Built(b).error_count
        /\ is_compiled = Built(b).is_compiled
        /\ token_queue = << >>
        /\ completed_tokens = << >>
        /\ pending_buffers = EmptyMap
        /\ now = 0
        /\ last = NoCall
        /\ calls = [inject |-> 0, arrive |-> 0]

NextRun ==
    \/ inject_token(TokenPool, MaxInject)
    \/ arrive_token_call(ArrivePool, MaxArrive)
    \/ run_step

SpecRun == InitRun /\ [][NextRun]_vars

(***************************************************************************)
(* Properties.                                                             *)
(***************************************************************************)
Successors(g, n) == Range(MapGet(g, n, << >>))

RECURSIVE ReachFrom(_, _, _)
ReachFrom(g, frontier, seen) ==
    LET nxt == UNION {Successors(g, n) : n \in frontier} \ seen
    IN IF nxt = {} THEN seen ELSE ReachFrom(g, nxt, seen \cup nxt)

\* Some task reaches itself along one or more arcs.
HasCycle(g) == \E n \in DOMAIN g : n \in ReachFrom(g, {n}, {})

IsProcess(b) == tasks = Built(b).tasks /\ graph = Built(b).graph

EntriesFor(q, y) == {i \in DOMAIN q : q[i].task_id = y}

GuardFails(task, token) ==
    \E i \in DOMAIN task.guards :
        MapGet(token.topics, task.guards[i].target_topic_id, 0)
            < task.guards[i].min_relevance

\* C1 (join completeness): an arrive_token call enqueues an entry (y, merged)
\* if and only if, once the arriving token is stored, the predecessor ids
\* buffered in pending[y] are exactly predecessors[y].
C1_JoinCompleteness ==
    [][ last'.op = "arrive_token" =>
          LET y      == last'.task_id
              stored == BufferKeys(MapGet(pending_buffers, y, << >>)) \cup {last'.from_id}
          IN (token_queue' = Append(token_queue, [task_id |-> y, token |-> last'.merged]))
                <=> (stored = MapGet(predecessors, y, {})) ]_vars

\* C2 (linear success, S1): in the compiled chain A->B, one token injected at A
\* whose checks and task functions all succeed ends, once the queue is empty,
\* as the only completed token, with history [A, B] and B's output as content.
C2_LinearSuccess ==
    ( /\ IsProcess(Chain) /\ is_compiled
      /\ calls.inject = 1 /\ calls.arrive = 0
      /\ token_queue = << >>
      /\ last.op = "run_step" /\ last.new_token # NoToken
      /\ MapGet(last.token.topics, "fin", 0) >= 7
      /\ (last.task_id = "A" \/ last.token.history = <<"A">>) )
    => ( /\ Len(completed_tokens) = 1
         /\ completed_tokens[1].history = <<"A", "B">>
         /\ completed_tokens[1].content = last.new_token.content )

\* C3 (trace preservation): the token evolved by run_step, and the token built
\* by a merge in arrive_token, carry the trace_id and the source_id of the token
\* they derive from (for a merge, the first buffered token).
C3_TracePreservation ==
    /\ (last.op = "run_step" /\ last.new_token # NoToken)
          => /\ last.new_token.trace_id = last.token.trace_id
             /\ last.new_token.source_id = last.token.source_id
    /\ (last.op = "arrive_token" /\ DOMAIN last.kwargs # {})
          => /\ last.merged.trace_id = last.inputs[1].trace_id
             /\ last.merged.source_id = last.inputs[1].source_id

\* C4 (compile soundness): when compile returns true the graph has no directed
\* cycle and every arc passes validate_link; on a graph with a cycle compile
\* returns false with error_count >= 1, and is_compiled is false.
C4_CompileSoundness ==
    /\ (last.op = "compile" /\ last.success)
          => /\ ~HasCycle(graph)
             /\ \A a \in Arcs(graph) :
                   validate_link(TaskOf(tasks, a[1]), TaskOf(tasks, graph[a[1]][a[2]]))
             /\ is_compiled
    /\ HasCycle(graph)
          => /\ ~is_compiled
             /\ last.op = "compile" => (~last.success /\ error_count >= 1)

C4_Witness ==
    /\ last.op = "compile" /\ last.success
    /\ Cardinality(Arcs(graph)) >= 2
    /\ Len(tasks) = 3

\* C5 (compile accepts every valid graph): a compile call on an acyclic graph
\* whose arcs all pass chain validation returns true and sets is_compiled.
C5_CompileAcceptsValid ==
    (last.op = "compile" /\ ~HasCycle(graph) /\ ChainErrors(graph, tasks) = {})
        => (last.success /\ is_compiled)

\* C6 (graph mutation invalidates compilation): every add_task call and every
\* successful add_link call leaves is_compiled false.
C6_MutationInvalidates ==
    (last.op = "add_task" \/ (last.op = "add_link" /\ last.result = "value"))
        => ~is_compiled

\* What C7 promises of a step: a failure with the guard message, the task
\* function not invoked, nothing delivered and nothing completed.
GuardRejected ==
    /\ last'.result = "value" /\ ~last'.success
    /\ last'.message = "Guard Condition Failed"
    /\ ~last'.invoked
    /\ last'.delivered = << >> /\ last'.routes = 0
    /\ pending_buffers' = pending_buffers
    /\ completed_tokens' = completed_tokens

\* C7 as stated (guard monotonicity): whenever a guard of the dequeued task
\* scores the dequeued token below min_relevance, run_step answers "Guard
\* Condition Failed", does not invoke the function, delivers and completes nothing.
C7_GuardMonotonicity_Original ==
    [][ ( /\ token_queue # << >> /\ last'.op = "run_step"
          /\ GuardFails(TaskOf(tasks, Head(token_queue).task_id), Head(token_queue).token) )
        => GuardRejected ]_vars

\* C7 as amended: the same, for a dequeued token that passes envelope
\* validation (an envelope failure is reported first, as "Token Integrity Fail").
C7_GuardMonotonicity ==
    [][ ( /\ token_queue # << >> /\ last'.op = "run_step"
          /\ Head(token_queue).token.trace_id # ""
          /\ \A k \in DOMAIN Head(token_queue).token.topics :
                Head(token_queue).token.topics[k] \in 0..10
          /\ now - Head(token_queue).token.created_at <= ttl_seconds
          /\ GuardFails(TaskOf(tasks, Head(token_queue).task_id), Head(token_queue).token) )
        => GuardRejected ]_vars

C7_Witness ==
    /\ last.op = "run_step" /\ last.message = "Guard Condition Failed"
    /\ last.token.topics = EmptyMap

\* The arrival of token tk from x at the strict join y completes y's
\* predecessor set and disagrees with a buffered token on some content key.
ConflictingArrival(x, y, tk) ==
    LET buf == MapGet(pending_buffers, y, << >>)
    IN /\ y \in Registered(tasks)
       /\ TaskOf(tasks, y).merge_strategy = "strict"
       /\ Cardinality(MapGet(predecessors, y, {})) > 1
       /\ MapGet(predecessors, y, {}) \subseteq BufferKeys(buf) \cup {x}
       /\ \E i \in DOMAIN buf :
             /\ buf[i].src # x
             /\ \E k \in (DOMAIN tk.content) \cap (DOMAIN buf[i].token.content) :
                   tk.content[k] # buf[i].token.content[k]

\* What C8 promises of such an arrival: a merge-conflict error, every buffered
\* token kept (the arriving one included), no queue entry for y.
ConflictKept(x, y, tk) ==
    /\ last'.result = "raised"
    /\ last'.raised = "ValueError: Merge Conflict"
    /\ pending_buffers'[y] = BufferPut(MapGet(pending_buffers, y, << >>), x, tk)
    /\ Cardinality(EntriesFor(token_queue', y)) <= Cardinality(EntriesFor(token_queue, y))

\* C8 (strict merge conflict, S4): an arrival that completes the predecessor
\* set of a strict join with a conflicting content key fails with a
\* merge-conflict error, leaves pending[y] holding every buffered token and
\* creates no queue entry for y; the arrival comes from the host's
\* arrive_token call or from the routing of run_step.
C8_StrictMergeConflict ==
    [][ /\ ( /\ last'.op = "arrive_token"
             /\ ConflictingArrival(last'.from_id, last'.task_id, last'.token) )
           => ConflictKept(last'.from_id, last'.task_id, last'.token)
        /\ ( /\ last'.op = "run_step" /\ Len(last'.delivered) = 1
             /\ ConflictingArrival(last'.task_id, last'.delivered[1], last'.new_token) )
           => ConflictKept(last'.task_id, last'.delivered[1], last'.new_token) ]_vars

C8_Witness ==
    /\ last.op = "run_step" /\ last.raised = "ValueError: Merge Conflict"
    /\ last.task_id = "B" /\ last.delivered = <<"C">>
    /\ Len(pending_buffers["C"]) = 2
    /\ pending_buffers["C"][1].token.content # pending_buffers["C"][2].token.content

\* C9 (buffering at a join): when run_step delivers the evolved token to a
\* task y with more than one predecessor whose predecessors have not all
\* arrived, the token is stored as pending[y][x], nothing is enqueued for y and
\* the call returns success=true with that delivery counted in routes_triggered.
C9_BufferingAtJoin ==
    ( /\ last.op = "run_step" /\ last.delivered # << >>
      /\ LET y == last.delivered[Len(last.delivered)]
         IN /\ Cardinality(MapGet(predecessors, y, {})) > 1
            /\ \E i \in DOMAIN pending_buffers[y] :
                  pending_buffers[y][i] = [src |-> last.task_id, token |-> last.new_token]
            /\ ~(predecessors[y] \subseteq BufferKeys(pending_buffers[y])) )
    => ( /\ last.result = "value" /\ last.success
         /\ last.routes >= 1 )

\* The head of the queue cannot be fired: its envelope, a guard or its content
\* fails, or the task function raises (an Exception, or an exception that does
\* not derive from Exception) or returns content its output spec rejects.
StepFails ==
    LET head == Head(token_queue)
        task == TaskOf(tasks, head.task_id)
    IN \/ ~_validate_envelope(head.token, now)
       \/ GuardFails(task, head.token)
       \/ validate(head.token.content, task.input_spec_id) # ""
       \/ last'.outcome.kind \in {"raise", "raise_base"}
       \/ /\ last'.outcome.kind = "return"
          /\ validate(last'.outcome.content, task.output_spec_id) # ""

\* The failed step reports through a FiringResult with success=false.
FailureReported ==
    /\ last'.result = "value" /\ ~last'.success
    /\ last'.message \in {"Token Integrity Fail", "Guard Condition Failed",
                          "Input Spec Fail", "Runtime Execution Error",
                          "Output Spec Fail"}

\* The head entry is gone, and the rest of the queue, completed and the
\* pending buffers are as before.
OnlyHeadDropped ==
    /\ token_queue' = Tail(token_queue)
    /\ completed_tokens' = completed_tokens
    /\ pending_buffers' = pending_buffers

\* C10 as stated (a failed step drops only its own token): a run_step that
\* fails at envelope validation, guards, input check, execution or output
\* check returns a FiringResult with success=false; the head entry is gone from
\* token_queue, the rest of the queue, completed and the pending buffers are
\* as before.
C10_FailedStepDropsOwnToken_Original ==
    [][ (token_queue # << >> /\ last'.op = "run_step" /\ StepFails)
        => (FailureReported /\ OnlyHeadDropped) ]_vars

\* C10 as amended: every failed step drops the head entry and leaves the rest
\* of the queue, completed and the pending buffers as before; it returns a
\* FiringResult with success=false, except when the task function raises an
\* exception that does not derive from Exception, which leaves run_step and
\* reaches the caller.
C10_FailedStepDropsOwnToken ==
    [][ (token_queue # << >> /\ last'.op = "run_step" /\ StepFails)
        => /\ OnlyHeadDropped
           /\ IF last'.outcome.kind = "raise_base"
              THEN last'.result = "raised" /\ last'.raised = "BaseException"
              ELSE FailureReported ]_vars

C10_Witness ==
    /\ last.op = "run_step" /\ last.result = "value" /\ ~last.success
    /\ last.message = "Output Spec Fail"
    /\ Len(token_queue) = 1
    /\ pending_buffers # EmptyMap

\* The head of the queue gets as far as the task function: envelope, guards and
\* input content pass.
FunctionReached ==
    LET head == Head(token_queue)
        task == TaskOf(tasks, head.task_id)
    IN /\ token_queue # << >>
       /\ _validate_envelope(head.token, now)
       /\ ~GuardFails(task, head.token)
       /\ validate(head.token.content, task.input_spec_id) = ""

\* What C11 promises of a step whose function raised: a FiringResult with
\* success=false and the execution-error message; no evolved token, nothing
\* routed, nothing completed.
ExecutionErrorReported ==
    /\ last'.result = "value" /\ ~last'.success
    /\ last'.message = "Runtime Execution Error"
    /\ last'.new_token = NoToken
    /\ last'.delivered = << >> /\ last'.routes = 0
    /\ pending_buffers' = pending_buffers
    /\ completed_tokens' = completed_tokens
    /\ token_queue' = Tail(token_queue)

\* C11 as stated (user-code failures never reach the host): whenever resolving
\* or calling the task function raises any exception, run_step does not raise;
\* it returns success=false with "Runtime Execution Error" and the token is
\* neither evolved, routed nor completed.
C11_UserFailuresContained_Original ==
    [][ ( /\ FunctionReached /\ last'.op = "run_step"
          /\ last'.outcome.kind \in {"raise", "raise_base"} )
        => ExecutionErrorReported ]_vars

\* C11 as amended: the same, for every exception that derives from Exception
\* (SystemExit, KeyboardInterrupt and other BaseException-only classes pass
\* through "except Exception" to the host).
C11_UserFailuresContained ==
    [][ ( /\ FunctionReached /\ last'.op = "run_step"
          /\ last'.outcome.kind = "raise" )
        => ExecutionErrorReported ]_vars

C11_Witness ==
    /\ last.op = "run_step" /\ last.outcome.kind = "raise"
    /\ last.message = "Runtime Execution Error"
    /\ last.token = TokenGood /\ last.task_id = "B"
    /\ token_queue # << >>

\* The envelope defects C12 names, on token tk at time t.
EnvelopeBroken(tk, t) ==
    \/ tk.trace_id = ""
    \/ \E k \in DOMAIN tk.topics : tk.topics[k] < 0 \/ tk.topics[k] > 10
    \/ t - tk.created_at > ttl_seconds

\* C12 (envelope validation comes first): a dequeued token with an empty
\* trace_id, a topic score outside [0, 1] or an age above the TTL makes run_step
\* return success=false with "Token Integrity Fail", whatever its guards and
\* content, without invoking the function; a token whose only peculiarity is an
\* age of exactly the TTL is not rejected by the envelope check.
C12_EnvelopeFirst ==
    [][ (token_queue # << >> /\ last'.op = "run_step")
        => LET tk == Head(token_queue).token
           IN /\ EnvelopeBroken(tk, now)
                    => /\ last'.result = "value" /\ ~last'.success
                       /\ last'.message = "Token Integrity Fail"
                       /\ ~last'.invoked
                       /\ last'.delivered = << >>
                       /\ completed_tokens' = completed_tokens
              /\ (~EnvelopeBroken(tk, now) /\ now - tk.created_at = ttl_seconds)
                    => last'.message # "Token Integrity Fail" ]_vars

C12_Witness ==
    /\ last.op = "run_step" /\ last.message = "Token Integrity Fail"
    /\ last.token.trace_id = ""
    /\ last.task_id = "B"

\* The tasks a fired task routes to, and whether none of them accepts token nt.
SuccessorIds(task_id) == MapGet(graph, task_id, << >>)

NoneEligible(task_id, nt) ==
    /\ SuccessorIds(task_id) # << >>
    /\ \A i \in DOMAIN SuccessorIds(task_id) :
          GuardFails(TaskOf(tasks, SuccessorIds(task_id)[i]), nt)

\* The evolved token was handed to a successor, or completed at a task without
\* successors.
RoutedOrCompleted ==
    \/ last'.routes >= 1 /\ last'.delivered # << >>
    \/ /\ SuccessorIds(last'.task_id) = << >>
       /\ completed_tokens' = Append(completed_tokens, last'.new_token)

\* C13 as stated (token state machine): after every run_step that returns
\* success=true the evolved token has been delivered to at least one successor
\* or appended to completed_tokens because the task has no successors.
C13_RoutedOrCompleted_Original ==
    [][ (last'.op = "run_step" /\ last'.result = "value" /\ last'.success)
        => RoutedOrCompleted ]_vars

\* C13 as amended: the same, with the third outcome of a successful step: the
\* task has successors, every one of them fails its guards against the evolved
\* token, routes_triggered is 0 and the token is in neither place.
C13_RoutedOrCompleted ==
    [][ (last'.op = "run_step" /\ last'.result = "value" /\ last'.success)
        => \/ RoutedOrCompleted
           \/ /\ NoneEligible(last'.task_id, last'.new_token)
              /\ last'.routes = 0 /\ last'.delivered = << >>
              /\ completed_tokens' = completed_tokens
              /\ pending_buffers' = pending_buffers
              /\ token_queue' = Tail(token_queue) ]_vars

C13_Witness ==
    /\ last.op = "run_step" /\ last.result = "value" /\ last.success
    /\ last.task_id = "A" /\ SuccessorIds("A") = <<"B">>
    /\ last.routes = 0
    /\ completed_tokens = << >>

\* The head of the queue is fired as far as routing: the function returns
\* content that its output spec accepts.
RoutingReached ==
    /\ FunctionReached /\ last'.op = "run_step"
    /\ last'.outcome.kind = "return"
    /\ validate(last'.outcome.content,
                TaskOf(tasks, Head(token_queue).task_id).output_spec_id) = ""

\* The positions, in the successor list of task_id, of the successors whose
\* guards pass against token nt.
EligiblePositions(task_id, nt) ==
    {i \in DOMAIN SuccessorIds(task_id) :
        ~GuardFails(TaskOf(tasks, SuccessorIds(task_id)[i]), nt)}

\* A successor whose guards fail against the evolved token gets no pending
\* entry and no queue entry.
IneligibleSkipped ==
    \A i \in DOMAIN SuccessorIds(last'.task_id) \ EligiblePositions(last'.task_id, last'.new_token) :
        LET y == SuccessorIds(last'.task_id)[i]
        IN /\ MapGet(pending_buffers', y, << >>) = MapGet(pending_buffers, y, << >>)
           /\ Cardinality(EntriesFor(token_queue', y))
                 = Cardinality(EntriesFor(Tail(token_queue), y))

\* C14 (guarded routing, S2): in every routing, a successor whose guards fail
\* receives nothing; routes_triggered of the FiringResult equals the number of
\* successors whose guards passed; with successors of which none is eligible,
\* routes_triggered is 0 and completed_tokens is unchanged.
C14_GuardedRouting ==
    [][ RoutingReached
        => /\ IneligibleSkipped
           /\ last'.result = "value"
           /\ last'.routes = Cardinality(EligiblePositions(last'.task_id, last'.new_token))
           /\ NoneEligible(last'.task_id, last'.new_token)
                 => completed_tokens' = completed_tokens ]_vars

\* The step delivers the last missing predecessor token to the join y: y has
\* several predecessors, the others are buffered, y's guards pass and, for a
\* strict join, the contents agree.
CompletesJoin(y) ==
    LET x   == last'.task_id
        nt  == last'.new_token
        buf == MapGet(pending_buffers, y, << >>)
    IN /\ \E i \in EligiblePositions(x, nt) : SuccessorIds(x)[i] = y
       /\ Cardinality(MapGet(predecessors, y, {})) > 1
       /\ x \notin BufferKeys(buf)
       /\ MapGet(predecessors, y, {}) = BufferKeys(buf) \cup {x}
       /\ ~ConflictingArrival(x, y, nt)

\* C15 (a join fires exactly once, S3): when the tokens of all predecessors of
\* a join have been fired through, the delivery of the last one produces
\* exactly one queue entry for the join and leaves its pending buffer empty.
C15_JoinFiresOnce ==
    [][ \A y \in TaskIds :
          (RoutingReached /\ CompletesJoin(y))
          => /\ Cardinality(EntriesFor(token_queue', y))
                   = Cardinality(EntriesFor(Tail(token_queue), y)) + 1
             /\ MapGet(pending_buffers', y, << >>) = << >> ]_vars

\* C16 (history monotonicity per firing): after every run_step that returns
\* success=true on the dequeued (task, old_token), new_token.history is
\* old_token.history with task_id appended, new_token.content is the function's
\* output, trace_id, source_id, created_at and topics are old_token's, and the
\* old token and the entries left in the queue are as they were.
C16_HistoryMonotonicity ==
    [][ (last'.op = "run_step" /\ last'.result = "value" /\ last'.success)
        => LET old == Head(token_queue).token
               nt  == last'.new_token
           IN /\ nt.history = Append(old.history, Head(token_queue).task_id)
              /\ Len(nt.history) = Len(old.history) + 1
              /\ nt.content = last'.outcome.content
              /\ nt.trace_id = old.trace_id /\ nt.source_id = old.source_id
              /\ nt.created_at = old.created_at /\ nt.topics = old.topics
              /\ last'.token = old
              /\ SubSeq(token_queue', 1, Len(token_queue) - 1) = Tail(token_queue) ]_vars

C16_Witness ==
    /\ last.op = "run_step" /\ last.result = "value" /\ last.success
    /\ last.token.history = <<"B">>
    /\ last.new_token.history = <<"B", "A">>
    /\ token_queue # << >>

\* C17 (FIFO queue): inject_token on a registered task appends exactly the
\* entry (start_task_id, token) at the tail of token_queue, compiled or not;
\* run_step on an empty queue returns nothing and changes nothing; run_step on
\* a non-empty queue fires the head entry and leaves the entries behind it in
\* place and in order.
C17_FifoQueue ==
    [][ /\ (last'.op = "inject_token" /\ last'.task_id \in Registered(tasks))
              => /\ last'.result = "value"
                 /\ token_queue' = token_queue
                       \o <<[task_id |-> last'.task_id, token |-> last'.token]>>
        /\ (last'.op = "run_step" /\ token_queue = << >>)
              => /\ last'.result = "none"
                 /\ UNCHANGED <<tasks, graph, predecessors, token_queue,
                                completed_tokens, pending_buffers, is_compiled,
                                error_count>>
        /\ (last'.op = "run_step" /\ token_queue # << >>)
              => /\ last'.task_id = Head(token_queue).task_id
                 /\ last'.token = Head(token_queue).token
                 /\ Len(token_queue') >= Len(token_queue) - 1
                 /\ SubSeq(token_queue', 1, Len(token_queue) - 1) = Tail(token_queue) ]_vars

C17_Witness ==
    /\ ~is_compiled
    /\ last.op = "run_step" /\ last.token = TokenLow
    /\ Len(token_queue) = 1 /\ token_queue[1].token = TokenGood

\* The arrival of a token from x completes the predecessor set of the join y.
CompletingArrival(x, y) ==
    /\ y \in Registered(tasks)
    /\ Cardinality(MapGet(predecessors, y, {})) > 1
    /\ MapGet(predecessors, y, {})
          \subseteq BufferKeys(MapGet(pending_buffers, y, << >>)) \cup {x}

\* What C18 promises of such an arrival of token tk, the last to arrive: tk is
\* the last of the tokens given to the merge, and under the union strategy the
\* merged token enqueued for y carries tk's value for every key of tk.
MergedInArrivalOrder(y, tk) ==
    /\ last'.inputs # << >>
    /\ last'.inputs[Len(last'.inputs)] = tk
    /\ TaskOf(tasks, y).merge_strategy = "union"
          => /\ token_queue' # << >>
             /\ token_queue'[Len(token_queue')].task_id = y
             /\ \A k \in DOMAIN tk.content :
                   /\ k \in DOMAIN token_queue'[Len(token_queue')].token.content
                   /\ token_queue'[Len(token_queue')].token.content[k] = tk.content[k]

\* C18 (merge order at a join): the tokens given to the merge are in the order
\* in which they arrived, so the arriving token that completes the join comes
\* last, and under union its values win for the keys it carries; the arrival is
\* the host's arrive_token call or a delivery of run_step.
C18_MergeOrder ==
    [][ /\ (last'.op = "arrive_token" /\ CompletingArrival(last'.from_id, last'.task_id))
              => MergedInArrivalOrder(last'.task_id, last'.token)
        /\ ( /\ last'.op = "run_step" /\ Len(last'.delivered) = 1
             /\ CompletingArrival(last'.task_id, last'.delivered[1]) )
              => MergedInArrivalOrder(last'.delivered[1], last'.new_token) ]_vars

\* The successors of task_id that accept token nt, in the order of the list
\* graph[task_id].
EligibleSeq(task_id, nt) ==
    SelectSeq(SuccessorIds(task_id),
              LAMBDA y : ~GuardFails(TaskOf(tasks, y), nt))

\* The task ids of the entries a step added behind the entries it found.
NewEntryIds ==
    [i \in 1..(Len(token_queue') - (Len(token_queue) - 1)) |->
        token_queue'[Len(token_queue) - 1 + i].task_id]

\* C19 (delivery order): a step that routes to several eligible successors
\* calls arrive_token for each of them in the order of the add_link calls, and
\* when each of them has one predecessor the queue entries it adds are in that
\* order.
C19_DeliveryOrder ==
    [][ ( /\ RoutingReached
          /\ Len(EligibleSeq(last'.task_id, last'.new_token)) >= 2 )
        => LET order == EligibleSeq(last'.task_id, last'.new_token)
           IN /\ last'.delivered = order
              /\ (\A i \in DOMAIN order :
                      Cardinality(MapGet(predecessors, order[i], {})) = 1)
                    => NewEntryIds = order ]_vars

\* The specs of producer p and consumer c differ, both exist, and some field
\* the consumer spec requires is absent from the producer spec or typed
\* differently there.
RequiredFieldUnmet(p, c) ==
    /\ p.output_spec_id # c.input_spec_id
    /\ p.output_spec_id \in DOMAIN specs /\ c.input_spec_id \in DOMAIN specs
    /\ LET prod == specs[p.output_spec_id]
           cons == specs[c.input_spec_id]
       IN \E i \in DOMAIN cons :
             /\ cons[i].required
             /\ \/ cons[i].name \notin FieldNames(prod)
                \/ FieldOf(prod, cons[i].name).type # cons[i].type

UnmetArcs ==
    {a \in Arcs(graph) :
        RequiredFieldUnmet(TaskOf(tasks, a[1]), TaskOf(tasks, graph[a[1]][a[2]]))}

\* C20 (chain validation rejects missing required fields): validate_link is
\* false for every arc whose consumer requires a field that the producer spec
\* lacks or types differently, and compile on a graph with such an arc returns
\* false.
C20_ChainRejectsMissingField ==
    (last.op = "compile" /\ UnmetArcs # {})
        => /\ \A a \in UnmetArcs :
                 ~validate_link(TaskOf(tasks, a[1]), TaskOf(tasks, graph[a[1]][a[2]]))
           /\ ~last.success


(***************************************************************************)
(* TokenValidator.validate on its own: a host hands it any content and any *)
(* spec id.                                                                *)
(***************************************************************************)
MaxValue == 3
MaxStrLen == 2

\* A string of each length, and a second string of length one.
StrOfLen == <<"", "a", "ab", "abc", "abcd">>

StrPool == {StrOfLen[n + 1] : n \in 0..MaxStrLen} \cup {"b"}

ValuePool ==
    {Val("int", v) : v \in 0..MaxValue} \cup {Val("float", v) : v \in 0..MaxValue}
        \cup {Str(str) : str \in StrPool} \cup {Val("bool", 1)}

ContentPool ==
    UNION {[d -> ValuePool] : d \in SUBSET {"x", "y"}}

SpecIdPool == DOMAIN specs \cup {"S9"}

validate_call ==
    \E content \in ContentPool, spec_id \in SpecIdPool :
        /\ last' = [NoCall EXCEPT
                      !.op = "validate",
                      !.result = IF validate(content, spec_id) = "" THEN "value" ELSE "raised",
                      !.raised = validate(content, spec_id),
                      !.success = (validate(content, spec_id) = ""),
                      !.spec_id = spec_id,
                      !.token = [NoToken EXCEPT !.content = content]]
        /\ UNCHANGED <<tasks, graph, predecessors, token_queue, completed_tokens,
                       pending_buffers, is_compiled, error_count, now, calls>>

NextValidate == validate_call

SpecValidate == Init /\ [][NextValidate]_vars

\* The declared numeric fields of a spec that the content carries.
NumericFields(spec_id, content) ==
    {i \in DOMAIN specs[spec_id] :
        /\ specs[spec_id][i].type \in {"float", "int"}
        /\ specs[spec_id][i].name \in DOMAIN content}

\* The value is not a number, or lies outside the rule's inclusive range.
OutOfRule(val, rule) ==
    \/ ~IsNumber(val)
    \/ (rule.min_value # NoBound /\ val.v < rule.min_value)
    \/ (rule.max_value # NoBound /\ val.v > rule.max_value)

\* C21 (numeric field validation): whenever validate is called with a known
\* spec, it raises if some declared float or int field is present with a
\* non-numeric value or a value outside [min_value, max_value]; int fields
\* are rejected exactly as float fields are.  It returns when every declared
\* field is numeric and present with a value equal to min_value or max_value.
C21_NumericFieldValidation ==
    (last.op = "validate" /\ last.spec_id \in DOMAIN specs)
        => /\ \A i \in NumericFields(last.spec_id, last.token.content) :
                 OutOfRule(last.token.content[specs[last.spec_id][i].name],
                           specs[last.spec_id][i])
                     => last.raised = "SemanticError"
           /\ ( /\ NumericFields(last.spec_id, last.token.content)
                      = DOMAIN specs[last.spec_id]
                /\ \A i \in DOMAIN specs[last.spec_id] :
                      /\ IsNumber(last.token.content[specs[last.spec_id][i].name])
                      /\ last.token.content[specs[last.spec_id][i].name].v
                            \in {specs[last.spec_id][i].min_value,
                                 specs[last.spec_id][i].max_value} )
                  => last.raised = ""

(***************************************************************************)
(* Process._apply_merge_strategy on its own: any strategy, any list of one *)
(* to MaxMerge tokens.                                                     *)
(***************************************************************************)
MaxMerge == 2

MergeStrategy == {"strict", "union", "custom_logic"}

\* Tokens whose field x is a float, a bool, a string or a list of dicts.
TokenFloat == [TokenGood EXCEPT !.content = [k \in {"x"} |-> Val("float", 1)]]
TokenBool  == [TokenGood EXCEPT !.content = [k \in {"x"} |-> Val("bool", 1)]]
TokenStrA  == [TokenGood EXCEPT !.content = [k \in {"x"} |-> Str("a")]]
TokenStrB  == [TokenGood EXCEPT !.content = [k \in {"x"} |-> Str("b")]]
TokenListInt ==
    [TokenGood EXCEPT !.content = [k \in {"x"} |-> List(<<X(1)>>)]]
TokenListFloat ==
    [TokenGood EXCEPT
        !.content = [k \in {"x"} |-> List(<<[j \in {"x"} |-> Val("float", 1)]>>)]]
TokenListBool ==
    [TokenGood EXCEPT
        !.content = [k \in {"x"} |-> List(<<[j \in {"x"} |-> Val("bool", 1)]>>)]]

MergePool ==
    TokenPool \cup {TokenFloat, TokenBool, TokenStrA, TokenStrB,
                    TokenListInt, TokenListFloat, TokenListBool}

TokenLists == UNION {[1..n -> MergePool] : n \in 1..MaxMerge}

merge_call ==
    \E strategy \in MergeStrategy, tokens \in TokenLists :
        /\ last' = [NoCall EXCEPT
                      !.op = "merge",
                      !.result = IF _apply_merge_strategy(strategy, tokens, now).err = ""
                                 THEN "value" ELSE "raised",
                      !.raised = _apply_merge_strategy(strategy, tokens, now).err,
                      !.success = (_apply_merge_strategy(strategy, tokens, now).err = ""),
                      !.strategy = strategy,
                      !.inputs = tokens,
                      !.kwargs = _apply_merge_strategy(strategy, tokens, now).kwargs,
                      !.merged = _apply_merge_strategy(strategy, tokens, now).token]
        /\ UNCHANGED <<tasks, graph, predecessors, token_queue, completed_tokens,
                       pending_buffers, is_compiled, error_count, now, calls>>

NextMerge == merge_call

SpecMerge == Init /\ [][NextMerge]_vars

\* The call is merge([a]) under union or merge([a, a]) under strict.
IdentityMerge ==
    /\ last.op = "merge"
    /\ \/ last.strategy = "union" /\ Len(last.inputs) = 1
       \/ last.strategy = "strict" /\ Len(last.inputs) = 2
            /\ last.inputs[1] = last.inputs[2]

\* C22 (merge identity laws): merge([a]) under union and merge([a, a]) under
\* strict return a token whose content is a.content and whose trace_id is
\* a.trace_id.
C22_MergeIdentity ==
    IdentityMerge
        => /\ last.result = "value"
           /\ last.merged.content = last.inputs[1].content
           /\ last.merged.trace_id = last.inputs[1].trace_id

\* The ids that graph and predecessors mention, as keys or as members.
GraphIds ==
    DOMAIN graph \cup UNION {Range(graph[x]) : x \in DOMAIN graph}
        \cup DOMAIN predecessors \cup UNION {predecessors[y] : y \in DOMAIN predecessors}

\* {x : y is in graph[x]}
ArcSources(y) == {x \in DOMAIN graph : y \in Range(graph[x])}

\* C23 (graph registry invariant): after any sequence of add_task and add_link
\* calls, failing ones included, every id in graph or predecessors is a
\* registered task, and predecessors[y] is exactly {x : y in graph[x]} for
\* every task y.
C23_GraphRegistry ==
    /\ GraphIds \subseteq Registered(tasks)
    /\ \A y \in Registered(tasks) : MapGet(predecessors, y, {}) = ArcSources(y)

\* A failing add_link after a task has gathered two predecessors.
C23_Witness ==
    /\ last.op = "add_link" /\ last.result = "raised"
    /\ \E y \in Registered(tasks) : Cardinality(ArcSources(y)) >= 2
    /\ Registered(tasks) # TaskIds

\* C24 (pending-buffer invariant): after any sequence of add_task, add_link,
\* inject_token, arrive_token and run_step calls, the predecessors that have
\* a token buffered for a task y all belong to predecessors[y].
C24_PendingWithinPredecessors ==
    \A y \in DOMAIN pending_buffers :
        BufferKeys(pending_buffers[y]) \subseteq MapGet(predecessors, y, {})

\* The step is an add_link call naming a source or a target that is not
\* registered.
LinkToUnknown ==
    /\ last'.op = "add_link"
    /\ tasks' = tasks
    /\ (last'.from_id \notin Registered(tasks) \/ last'.task_id \notin Registered(tasks))

\* C25 (add_link on an unknown task): add_link with an unregistered source or
\* target raises to the caller and leaves graph, predecessors and is_compiled
\* as they were; not even an empty graph key appears.
C25_UnknownLinkRejected ==
    [][LinkToUnknown
          => /\ last'.result = "raised"
             /\ last'.raised = "ValueError"
             /\ graph' = graph
             /\ predecessors' = predecessors
             /\ is_compiled' = is_compiled]_vars

\* A rejected add_link on a compiled process that already has an arc.
C25_Witness ==
    /\ last.op = "add_link" /\ last.result = "raised"
    /\ (last.from_id \notin Registered(tasks) \/ last.task_id \notin Registered(tasks))
    /\ is_compiled
    /\ Arcs(graph) # {}

\* The step routes the evolved token to y, whose only predecessor is the task
\* fired and whose guards pass against the evolved token.
EligibleSingle(y) ==
    /\ RoutingReached
    /\ \E i \in EligiblePositions(last'.task_id, last'.new_token) :
          SuccessorIds(last'.task_id)[i] = y
    /\ MapGet(predecessors, y, {}) = {last'.task_id}

\* The entries a step added behind the entries it found.
NewEntries ==
    {token_queue'[i] : i \in Len(token_queue)..Len(token_queue')}

\* C26 (guard consistency between routing and firing): when a successor y
\* with a single predecessor is eligible at routing, the delivery creates a
\* queue entry for y whose token carries the topic scores the look-ahead guard
\* check was evaluated on, so y's guard check passes on it when run_step
\* dequeues it.
C26_GuardConsistency ==
    [][ \A y \in TaskIds :
          EligibleSingle(y)
          => \E e \in NewEntries :
                /\ e.task_id = y
                /\ e.token.topics = last'.new_token.topics
                /\ _check_guards(TaskOf(tasks, y), e.token) ]_vars

(***************************************************************************)
(* A host that injects finitely many tokens into a constructed process and *)
(* keeps polling run_step.                                                 *)
(***************************************************************************)
MaxInjectLive == 2

LivePool == {TokenGood, TokenLow, TokenOld, TokenVisited}

NextLive ==
    \/ inject_token(LivePool, MaxInjectLive)
    \/ run_step

SpecLive == InitRun /\ [][NextLive]_vars /\ WF_vars(run_step)

\* C27 (termination): on an acyclic graph, after finitely many inject_token
\* calls, a host that keeps calling run_step eventually gets nothing back from
\* it, and from then on token_queue stays empty: no token is re-enqueued
\* forever.
C27_Termination ==
    <>[](last.op = "run_step" /\ last.result = "none" /\ token_queue = << >>)

\* run_step finds the queue empty after every injected token has been fired
\* and one of them has run through to the end of a chain.
C27_Witness ==
    /\ ~HasCycle(graph)
    /\ calls.inject = MaxInjectLive
    /\ last.op = "run_step" /\ last.result = "none"
    /\ token_queue = << >>
    /\ completed_tokens # << >>

\* The step hands token tk from x to y, by the host's arrive_token call or as
\* the latest delivery of run_step.
Delivers(x, y, tk) ==
    \/ /\ last'.op = "arrive_token"
       /\ last'.from_id = x /\ last'.task_id = y /\ last'.token = tk
    \/ /\ last'.op = "run_step" /\ last'.delivered # << >>
       /\ last'.delivered[Len(last'.delivered)] = y
       /\ last'.task_id = x /\ last'.new_token = tk

\* x already has a token buffered at the join y, and after this delivery y is
\* still waiting for another predecessor.
SecondDelivery(x, y, tk) ==
    /\ Delivers(x, y, tk)
    /\ x \in BufferKeys(MapGet(pending_buffers, y, << >>))
    /\ MapGet(predecessors, y, {}) \ BufferKeys(MapGet(pending_buffers, y, << >>)) # {}

\* Every buffer holds at most one entry per predecessor.
OneSlot(pb) ==
    \A y \in DOMAIN pb :
        \A i, j \in DOMAIN pb[y] : pb[y][i].src = pb[y][j].src => i = j

\* The queue entries as they were before the step, the head entry taken off
\* by run_step.
QueueKept == IF last'.op = "run_step" THEN Tail(token_queue) ELSE token_queue

\* C28 (one slot per predecessor): pending[y] holds at most one token per
\* predecessor; when x delivers a second token to the join y while y still
\* waits for another predecessor, the second token takes the place of the
\* first in pending[y][x], the other slots stay, and nothing is merged, queued
\* or completed; the tokens a merge is given are the ones then buffered, so
\* the replaced token is in no later merge.
C28_OneSlotPerPredecessor ==
    [][ /\ OneSlot(pending_buffers')
        /\ \A x \in TaskIds, y \in TaskIds :
              SecondDelivery(x, y, IF last'.op = "run_step" THEN last'.new_token
                                   ELSE last'.token)
              => LET tk  == IF last'.op = "run_step" THEN last'.new_token
                            ELSE last'.token
                     old == pending_buffers[y]
                     new == pending_buffers'[y]
                 IN /\ Len(new) = Len(old)
                    /\ \A i \in DOMAIN old :
                          new[i] = IF old[i].src = x THEN [src |-> x, token |-> tk]
                                   ELSE old[i]
                    /\ last'.inputs = << >> /\ last'.merged = NoToken
                    /\ token_queue' = QueueKept
                    /\ completed_tokens' = completed_tokens
        /\ \A x \in TaskIds, y \in TaskIds :
              ( /\ Delivers(x, y, IF last'.op = "run_step" THEN last'.new_token
                                  ELSE last'.token)
                /\ last'.inputs # << >> )
              => \A i \in DOMAIN last'.inputs :
                    \E j \in DOMAIN pending_buffers'[y] :
                        pending_buffers'[y][j].token = last'.inputs[i] ]_vars

\* The host has called arrive_token once, and the only token buffered anywhere
\* is the one run_step has just delivered from A to the join C, which still
\* waits for B: the host's token was in that slot and has been replaced.
C28_Witness ==
    /\ last.op = "run_step" /\ last.task_id = "A" /\ last.delivered = <<"C">>
    /\ MapGet(predecessors, "C", {}) = {"A", "B"}
    /\ calls.arrive = 1
    /\ DOMAIN pending_buffers = {"C"}
    /\ pending_buffers["C"] = <<[src |-> "A", token |-> last.new_token]>>
    /\ last.new_token.history = <<"A">>


\* The step is a run_step that returns success=true.
StepSucceeds == last'.op = "run_step" /\ last'.result = "value" /\ last'.success

\* C29 (completed list is append-only): no step removes or replaces an element
\* of completed_tokens; the list grows only in a successful run_step, by
\* exactly the evolved token of a task without successors in graph, whose
\* last history entry is that task; and every successful firing of such a task
\* appends its token.
C29_CompletedAppendOnly ==
    [][ /\ Len(completed_tokens') >= Len(completed_tokens)
        /\ SubSeq(completed_tokens', 1, Len(completed_tokens)) = completed_tokens
        /\ completed_tokens' # completed_tokens
              => /\ StepSucceeds
                 /\ completed_tokens' = Append(completed_tokens, last'.new_token)
                 /\ SuccessorIds(last'.task_id) = << >>
                 /\ last'.new_token.history # << >>
                 /\ last'.new_token.history[Len(last'.new_token.history)] = last'.task_id
        /\ (StepSucceeds /\ SuccessorIds(last'.task_id) = << >>)
              => completed_tokens' = Append(completed_tokens, last'.new_token) ]_vars

\* A second token has been completed, at the end task of a graph with arcs.
C29_Witness ==
    /\ last.op = "run_step" /\ last.result = "value" /\ last.success
    /\ Arcs(graph) # {}
    /\ Len(completed_tokens) = 2
    /\ completed_tokens[1] # completed_tokens[2]
    /\ completed_tokens[2] = last.new_token
====
